---- MODULE Spec2Model ----
(***************************************************************************)
(* Model of the Payments dashboard component (app/dashboard/components/   *)
(* Payments.js): the sanitizers, the record normalizer getSafeData, the   *)
(* filter engine and the per-card display preparation.                    *)
(*                                                                         *)
(* JavaScript values are records [t, n, s]: t is the kind of the value,   *)
(* n its number (numbers, booleans), s its characters (strings).  A       *)
(* JavaScript string is a sequence of one-character strings.              *)
(***************************************************************************)
EXTENDS Integers, Sequences, FiniteSets, TLC

VARIABLES
    data,              \* the `data` prop: the raw payload
    filter,            \* useState('all'): the current filter selector
    safeData,          \* useMemo: getSafeData(data)
    filteredPayments,  \* useMemo: the visible subset
    view,              \* what the last render produced: cards, or an exception
    request,           \* the last filter-change request and the selector before it
    now,               \* the clock read by `new Date()`
    call               \* the last direct call of a sanitizer: function, inputs, result

vars == <<data, filter, safeData, filteredPayments, view, request, now, call>>

\* ------------------------------------------------------------------ bounds

\* Longest payments array of a payload.
MaxPayments == 2
\* Most fragments concatenated into one text input.
MaxFrags == 3
\* Width of the window of integers tried around each boundary of the amount range.
AmountWindow == 12
\* Width of the window of milliseconds tried around the one-day-ahead boundary.
TimeWindow == 2

\* ------------------------------------------------------- JavaScript values

JSV(t, n, s) == [t |-> t, n |-> n, s |-> s]

Undefined == JSV("undefined", 0, <<>>)
Null == JSV("null", 0, <<>>)
NaN == JSV("nan", 0, <<>>)
PosInfinity == JSV("inf", 0, <<>>)
NegInfinity == JSV("ninf", 0, <<>>)
PlainObject == JSV("object", 0, <<>>)
EmptyArray == JSV("array", 0, <<>>)
\* A function or object inherited from Object.prototype (a non-string value).
ProtoValue == JSV("proto", 0, <<>>)
Num(n) == JSV("number", n, <<>>)
Bool(b) == JSV("boolean", IF b THEN 1 ELSE 0, <<>>)
Str(s) == JSV("string", 0, s)

\* typeof value
TypeOf(v) ==
    CASE v.t = "undefined" -> "undefined"
      [] v.t = "boolean" -> "boolean"
      [] v.t \in {"number", "nan", "inf", "ninf"} -> "number"
      [] v.t = "string" -> "string"
      [] OTHER -> "object"

\* value == null
IsNullish(v) == v.t \in {"undefined", "null"}

\* ToBoolean(value): what `!value`, `a || b`, `if (value)` test
Truthy(v) ==
    CASE v.t \in {"undefined", "null", "nan"} -> FALSE
      [] v.t = "boolean" -> v.n = 1
      [] v.t = "number" -> v.n # 0
      [] v.t = "string" -> Len(v.s) > 0
      [] OTHER -> TRUE

\* ----------------------------------------------------------------- strings

Digits == <<"0", "1", "2", "3", "4", "5", "6", "7", "8", "9">>
LowerLetters ==
    <<"a", "b", "c", "d", "e", "f", "g", "h", "i", "j", "k", "l", "m",
      "n", "o", "p", "q", "r", "s", "t", "u", "v", "w", "x", "y", "z">>
UpperLetters ==
    <<"A", "B", "C", "D", "E", "F", "G", "H", "I", "J", "K", "L", "M",
      "N", "O", "P", "Q", "R", "S", "T", "U", "V", "W", "X", "Y", "Z">>

Range(f) == {f[i] : i \in DOMAIN f}
Min(S) == CHOOSE x \in S : \A y \in S : x <= y

WordChars == Range(Digits) \cup Range(LowerLetters) \cup Range(UpperLetters) \cup {"_"}
SpaceChars == {" ", "\t", "\n"}
LowerOf == [c \in Range(UpperLetters) |-> LowerLetters[CHOOSE i \in DOMAIN UpperLetters : UpperLetters[i] = c]]
UpperOf == [c \in Range(LowerLetters) |-> UpperLetters[CHOOSE i \in DOMAIN LowerLetters : LowerLetters[i] = c]]

\* \w of a regular expression
IsWordChar(c) == c \in WordChars
\* \s of a regular expression, what trim() removes
IsSpace(c) == c \in SpaceChars

LowerChar(c) == IF c \in DOMAIN LowerOf THEN LowerOf[c] ELSE c
UpperChar(c) == IF c \in DOMAIN UpperOf THEN UpperOf[c] ELSE c

\* String.prototype.toLowerCase
ToLowerCase(s) == [i \in 1..Len(s) |-> LowerChar(s[i])]

\* String.prototype.trim
Trim(s) ==
    LET keep == {i \in 1..Len(s) : ~IsSpace(s[i])}
    IN IF keep = {} THEN <<>>
       ELSE SubSeq(s, Min(keep), CHOOSE i \in keep : \A j \in keep : j <= i)

\* String.prototype.substring(from, to), 0-based, `to` excluded
Substring(s, from, to) == SubSeq(s, from + 1, IF to < Len(s) THEN to ELSE Len(s))

\* pat (in lower case) occurs in s at position i (1-based), letter case ignored
MatchesAtCI(s, i, pat) ==
    /\ i >= 1
    /\ i + Len(pat) - 1 <= Len(s)
    /\ \A k \in 1..Len(pat) : LowerChar(s[i + k - 1]) = pat[k]

\* The decimal digits of a natural number.
RECURSIVE NatStr(_)
NatStr(n) ==
    IF n < 10 THEN <<Digits[n + 1]>>
    ELSE NatStr(n \div 10) \o <<Digits[(n % 10) + 1]>>

\* Number.prototype.toString for an integer.
IntStr(n) == IF n < 0 THEN <<"-">> \o NatStr(-n) ELSE NatStr(n)

ObjectText == <<"[", "o", "b", "j", "e", "c", "t", " ", "O", "b", "j", "e", "c", "t", "]">>

\* String(value)
ToStr(v) ==
    CASE v.t = "string" -> v.s
      [] v.t = "number" -> IntStr(v.n)
      [] v.t = "nan" -> <<"N", "a", "N">>
      [] v.t = "inf" -> <<"I", "n", "f", "i", "n", "i", "t", "y">>
      [] v.t = "ninf" -> <<"-", "I", "n", "f", "i", "n", "i", "t", "y">>
      [] v.t = "boolean" -> IF v.n = 1 THEN <<"t", "r", "u", "e">> ELSE <<"f", "a", "l", "s", "e">>
      [] v.t = "null" -> <<"n", "u", "l", "l">>
      [] v.t = "undefined" -> <<"u", "n", "d", "e", "f", "i", "n", "e", "d">>
      [] v.t = "array" -> <<>>
      [] OTHER -> ObjectText

\* ---------------------------------------------------------- text sanitizer

\* .substring(0, 500)
MaxStrLen == 500

ScriptOpen == <<"<", "s", "c", "r", "i", "p", "t">>
ScriptClose == <<"<", "/", "s", "c", "r", "i", "p", "t", ">">>
JavascriptUri == <<"j", "a", "v", "a", "s", "c", "r", "i", "p", "t", ":">>
Quotes == {"\"", "'"}

\* /<script\b[^<]*(?:(?!<\/script>)<[^<]*)*<\/script>/gi at position i: the
\* position after the match, 0 when there is none.  The body can hold no `<`
\* that starts `</script>`, so the match ends with the first `</script>`.
ScriptMatchEnd(s, i) ==
    LET b == i + Len(ScriptOpen)
        closes == {j \in b..Len(s) : MatchesAtCI(s, j, ScriptClose)}
    IN IF /\ MatchesAtCI(s, i, ScriptOpen)
          /\ b <= Len(s)
          /\ ~IsWordChar(s[b])
          /\ closes # {}
       THEN Min(closes) + Len(ScriptClose)
       ELSE 0

\* /on\w+=["'][^"']*["']/g at position i (letter case matters).
OnAttrMatchEnd(s, i) ==
    LET stops == {k \in (i + 2)..(Len(s) + 1) : k = Len(s) + 1 \/ ~IsWordChar(s[k])}
        eq == Min(stops)
        ends == {q \in (eq + 2)..Len(s) : s[q] \in Quotes}
    IN IF /\ i + 1 <= Len(s)
          /\ s[i] = "o"
          /\ s[i + 1] = "n"
          /\ eq > i + 2
          /\ eq + 1 <= Len(s)
          /\ s[eq] = "="
          /\ s[eq + 1] \in Quotes
          /\ ends # {}
       THEN Min(ends) + 1
       ELSE 0

\* /javascript:/gi at position i.
JsUriMatchEnd(s, i) ==
    IF MatchesAtCI(s, i, JavascriptUri) THEN i + Len(JavascriptUri) ELSE 0

MatchEnd(re, s, i) ==
    CASE re = "script" -> ScriptMatchEnd(s, i)
      [] re = "onattr" -> OnAttrMatchEnd(s, i)
      [] re = "jsuri" -> JsUriMatchEnd(s, i)

\* s.replace(re, '') of a global regular expression, from position `from` on:
\* one pass, left to right; the scan resumes after each match and never looks
\* again at what it has already produced.
RECURSIVE ReplaceFrom(_, _, _)
ReplaceFrom(re, s, from) ==
    LET starts == {i \in from..Len(s) : MatchEnd(re, s, i) > 0}
    IN IF starts = {} THEN SubSeq(s, from, Len(s))
       ELSE SubSeq(s, from, Min(starts) - 1)
            \o ReplaceFrom(re, s, MatchEnd(re, s, Min(starts)))

ReplaceAll(re, s) == ReplaceFrom(re, s, 1)

\* safeToString(value, defaultValue = '')
safeToString(value, defaultValue) ==
    IF IsNullish(value) THEN defaultValue
    ELSE Substring(
             ReplaceAll("jsuri", ReplaceAll("onattr", ReplaceAll("script", Trim(ToStr(value))))),
             0, MaxStrLen)

\* ------------------------------------------------- number and currency

\* The upper limit of a plausible amount (100 million).
MaxAmount == 100000000

Rupee == <<"₹">>
NotAvailable == <<"N", "/", "A">>
InvalidText == <<"I", "n", "v", "a", "l", "i", "d">>

IsDigitString(s) == Len(s) > 0 /\ \A i \in 1..Len(s) : s[i] \in Range(Digits)

DigitValue(c) == (CHOOSE i \in DOMAIN Digits : Digits[i] = c) - 1

RECURSIVE DigitsValue(_)
DigitsValue(s) ==
    IF Len(s) = 0 THEN 0
    ELSE 10 * DigitsValue(SubSeq(s, 1, Len(s) - 1)) + DigitValue(s[Len(s)])

\* StringToNumber of the strings the model draws: an optionally signed run of
\* decimal digits, "Infinity", the empty string; everything else is NaN.
StringToNumber(s) ==
    LET u == Trim(s)
        signed == Len(u) > 0 /\ u[1] \in {"-", "+"}
        body == IF signed THEN Tail(u) ELSE u
        neg == signed /\ u[1] = "-"
    IN CASE Len(u) = 0 -> Num(0)
         [] IsDigitString(body) -> Num(IF neg THEN 0 - DigitsValue(body) ELSE DigitsValue(body))
         [] body = <<"I", "n", "f", "i", "n", "i", "t", "y">> -> IF neg THEN NegInfinity ELSE PosInfinity
         [] OTHER -> NaN

\* Number(value)
ToNumber(v) ==
    CASE v.t \in {"number", "nan", "inf", "ninf"} -> v
      [] v.t = "string" -> StringToNumber(v.s)
      [] v.t = "boolean" -> Num(v.n)
      [] v.t = "null" -> Num(0)
      [] v.t = "array" -> Num(0)
      [] OTHER -> NaN

\* isNaN(num) || !isFinite(num)
NotFinite(num) == num.t \in {"nan", "inf", "ninf"}

\* The digits before the last three, in groups of two from the right.
RECURSIVE GroupPairs(_)
GroupPairs(s) ==
    IF Len(s) <= 2 THEN s
    ELSE GroupPairs(SubSeq(s, 1, Len(s) - 2)) \o <<",">> \o SubSeq(s, Len(s) - 1, Len(s))

\* (integer).toLocaleString('en-IN'): Indian grouping, 12,34,56,789
ToLocaleStringIN(n) ==
    LET d == NatStr(IF n < 0 THEN 0 - n ELSE n)
        grouped == IF Len(d) <= 3 THEN d
                   ELSE GroupPairs(SubSeq(d, 1, Len(d) - 3)) \o <<",">>
                        \o SubSeq(d, Len(d) - 2, Len(d))
    IN IF n < 0 THEN <<"-">> \o grouped ELSE grouped

\* safeFormatNumber(value, defaultValue = 'N/A')
safeFormatNumber(value, defaultValue) ==
    IF IsNullish(value) THEN defaultValue
    ELSE LET num == ToNumber(value)
         IN IF NotFinite(num) THEN defaultValue
            ELSE IF num.n < 0 \/ num.n > MaxAmount THEN InvalidText
            ELSE ToLocaleStringIN(num.n)

\* safeFormatCurrency with the upper limit excluded (num >= 100000000).
safeFormatCurrency_LimitExcluded(value, currency, defaultValue) ==
    IF IsNullish(value) THEN defaultValue
    ELSE LET num == ToNumber(value)
         IN IF NotFinite(num) THEN defaultValue
            ELSE IF num.n < 0 \/ num.n >= MaxAmount THEN currency \o InvalidText
            ELSE currency \o ToLocaleStringIN(num.n)

\* safeFormatCurrency(value, currency = '₹', defaultValue = 'N/A')
safeFormatCurrency(value, currency, defaultValue) ==
    IF IsNullish(value) THEN defaultValue
    ELSE LET num == ToNumber(value)
         IN IF NotFinite(num) THEN defaultValue
            ELSE IF num.n < 0 \/ num.n > MaxAmount THEN currency \o InvalidText
            ELSE currency \o ToLocaleStringIN(num.n)

\* ------------------------------------------------------------------- dates

\* One day in milliseconds.
DayMs == 86400000
HourMs == DayMs \div 24
MinuteMs == HourMs \div 60

InvalidDateText == <<"I", "n", "v", "a", "l", "i", "d", " ", "D", "a", "t", "e">>

\* A Date: its time value in milliseconds since the epoch, or an invalid date.
DateOf(t) == [valid |-> TRUE, t |-> t]
InvalidDate == [valid |-> FALSE, t |-> 0]

IsoPrefix == <<"1", "9", "7", "0", "-", "0", "1", "-">>

\* Date.parse of the strings the model draws: the ISO date-only form
\* 1970-01-DD (midnight UTC of that day); every other string is unparseable.
DateParse(s) ==
    LET dd == SubSeq(s, Len(IsoPrefix) + 1, Len(s))
    IN IF /\ Len(s) = Len(IsoPrefix) + 2
          /\ SubSeq(s, 1, Len(IsoPrefix)) = IsoPrefix
          /\ IsDigitString(dd)
          /\ DigitsValue(dd) \in 1..31
       THEN DateOf((DigitsValue(dd) - 1) * DayMs)
       ELSE InvalidDate

\* new Date(value)
NewDate(v) ==
    CASE v.t = "string" -> DateParse(v.s)
      [] v.t = "number" -> DateOf(v.n)
      [] v.t = "boolean" -> DateOf(v.n)
      [] v.t = "null" -> DateOf(0)
      [] OTHER -> InvalidDate

TwoDigits(n) == IF n < 10 THEN <<"0">> \o NatStr(n) ELSE NatStr(n)

\* date.toLocaleDateString('en-IN', {year: 'numeric', month: 'short', day:
\* 'numeric', hour: '2-digit', minute: '2-digit'}) in UTC, for the instants
\* of December 1969 and January 1970: "2 Jan 1970, 01:05 pm"
ToLocaleDateStringIN(t) ==
    LET day == t \div DayMs
        ms == t % DayMs
        h == ms \div HourMs
        m == (ms % HourMs) \div MinuteMs
        h12 == IF h % 12 = 0 THEN 12 ELSE h % 12
        monthYear == IF day >= 0 THEN <<" ", "J", "a", "n", " ", "1", "9", "7", "0">>
                     ELSE <<" ", "D", "e", "c", " ", "1", "9", "6", "9">>
        dayOfMonth == IF day >= 0 THEN day + 1 ELSE day + 32
    IN NatStr(dayOfMonth) \o monthYear \o <<",", " ">> \o TwoDigits(h12) \o <<":">>
       \o TwoDigits(m) \o <<" ">> \o (IF h < 12 THEN <<"a", "m">> ELSE <<"p", "m">>)

\* safeFormatDate(dateString, defaultValue = 'N/A'), with the clock at `clock`
safeFormatDate(dateString, defaultValue, clock) ==
    IF ~Truthy(dateString) THEN defaultValue
    ELSE LET date == NewDate(dateString)
         IN IF ~date.valid THEN defaultValue
            ELSE IF date.t > clock + DayMs THEN InvalidDateText
            ELSE ToLocaleDateStringIN(date.t)

\* ---------------------------------------------------------- payment method

MethodKeys ==
    << <<"c", "r", "e", "d", "i", "t", "_", "c", "a", "r", "d">>,
       <<"d", "e", "b", "i", "t", "_", "c", "a", "r", "d">>,
       <<"u", "p", "i">>,
       <<"n", "e", "t", "b", "a", "n", "k", "i", "n", "g">>,
       <<"w", "a", "l", "l", "e", "t">> >>
MethodLabels ==
    << <<"C", "r", "e", "d", "i", "t", " ", "C", "a", "r", "d">>,
       <<"D", "e", "b", "i", "t", " ", "C", "a", "r", "d">>,
       <<"U", "P", "I">>,
       <<"N", "e", "t", " ", "B", "a", "n", "k", "i", "n", "g">>,
       <<"D", "i", "g", "i", "t", "a", "l", " ", "W", "a", "l", "l", "e", "t">> >>

\* The all-lower-case property names an object literal inherits from
\* Object.prototype: PAYMENT_METHODS[key] is a truthy non-string for them.
InheritedKeys ==
    { <<"c", "o", "n", "s", "t", "r", "u", "c", "t", "o", "r">>,
      <<"_", "_", "p", "r", "o", "t", "o", "_", "_">> }

UnknownText == <<"U", "n", "k", "n", "o", "w", "n">>

\* PAYMENT_METHODS[key]
PAYMENT_METHODS(key) ==
    IF key \in Range(MethodKeys)
    THEN Str(MethodLabels[CHOOSE i \in DOMAIN MethodKeys : MethodKeys[i] = key])
    ELSE IF key \in InheritedKeys THEN ProtoValue
    ELSE Undefined

\* safePaymentMethod(method)
safePaymentMethod(method) ==
    LET safeMethod == ToLowerCase(safeToString(method, <<>>))
    IN IF Truthy(PAYMENT_METHODS(safeMethod)) THEN PAYMENT_METHODS(safeMethod)
       ELSE Str(safeToString(method, UnknownText))

\* ------------------------------------------------------ record normalizer

\* A raw entry of the payments array: v is the entry itself as a value (an
\* object, or anything else the payload may hold there), the other fields are
\* the properties of an object entry under the API's names.
RawPayment(v, id, booking_id, amount, method, status, paid_at, gatewayId) ==
    [v |-> v, id |-> id, booking_id |-> booking_id, amount |-> amount,
     method |-> method, status |-> status, paid_at |-> paid_at,
     gatewayId |-> gatewayId, refund_id |-> Undefined, refund_time |-> Undefined,
     apartment_title |-> Undefined, start_date |-> Undefined, end_date |-> Undefined]

\* An entry that is no object: null, a string, a number, an array.
RawScalar(v) ==
    RawPayment(v, Undefined, Undefined, Undefined, Undefined, Undefined, Undefined, Undefined)

\* payment?.key
Prop(payment, key) == IF payment.v.t = "object" THEN payment[key] ELSE Undefined

\* The object literal built for one entry by the map callback.
MapPayment(payment) ==
    [id |-> Prop(payment, "id"),
     bookingId |-> Prop(payment, "booking_id"),
     amount |-> Prop(payment, "amount"),
     method |-> Prop(payment, "method"),
     status |-> Prop(payment, "status"),
     paidAt |-> Prop(payment, "paid_at"),
     gatewayId |-> Prop(payment, "gatewayId"),
     refundId |-> Prop(payment, "refund_id"),
     refundTime |-> Prop(payment, "refund_time"),
     apartmentTitle |-> Prop(payment, "apartment_title"),
     startDate |-> Prop(payment, "start_date"),
     endDate |-> Prop(payment, "end_date")]

\* The filter callback: the mapped record is always a non-array object, so
\* what decides is (payment.id || payment.bookingId).
HasRequiredStructure(payment) == Truthy(payment.id) \/ Truthy(payment.bookingId)

\* A payload: v is the payload itself as a value, items its elements when it
\* is an array, payments its `payments` property (v and, for an array, items).
Payload(v, items, pv, pitems) ==
    [v |-> v, items |-> items, payments |-> [v |-> pv, items |-> pitems]]

DEFAULT_DATA == [payments |-> <<>>]

\* data.payments.map(payment => ({...}))
MapPayments(items) == [i \in 1..Len(items) |-> MapPayment(items[i])]

\* getSafeData with a payload that is itself an array taken as the payments.
getSafeData_TopLevelArray(d) ==
    IF ~Truthy(d.v) \/ TypeOf(d.v) # "object"
    THEN DEFAULT_DATA
    ELSE [payments |->
             IF d.v.t = "array"
             THEN SelectSeq(MapPayments(d.items), HasRequiredStructure)
             ELSE IF d.payments.v.t = "array"
             THEN SelectSeq(MapPayments(d.payments.items), HasRequiredStructure)
             ELSE DEFAULT_DATA.payments]

\* getSafeData keeping only the first of the records that are equal.
getSafeData_Deduplicated(d) ==
    IF ~Truthy(d.v) \/ TypeOf(d.v) # "object" \/ d.v.t = "array"
    THEN DEFAULT_DATA
    ELSE [payments |->
             IF d.payments.v.t = "array"
             THEN LET all == SelectSeq(MapPayments(d.payments.items), HasRequiredStructure)
                      first == {i \in DOMAIN all : \A j \in 1..(i - 1) : all[j] # all[i]}
                  IN [k \in 1..Cardinality(first) |->
                         all[CHOOSE i \in first : Cardinality({j \in first : j <= i}) = k]]
             ELSE DEFAULT_DATA.payments]

\* getSafeData(data)
getSafeData(d) ==
    IF ~Truthy(d.v) \/ TypeOf(d.v) # "object" \/ d.v.t = "array"
    THEN DEFAULT_DATA
    ELSE [payments |->
             IF d.payments.v.t = "array"
             THEN SelectSeq(MapPayments(d.payments.items), HasRequiredStructure)
             ELSE DEFAULT_DATA.payments]

\* ------------------------------------------------------------ filter engine

FILTERS ==
    << <<"a", "l", "l">>, <<"p", "a", "i", "d">>,
       <<"r", "e", "f", "u", "n", "d", "e", "d">>, <<"f", "a", "i", "l", "e", "d">> >>

FilterAll == FILTERS[1]

\* handleFilterChange without the FILTERS.some(...) test.
handleFilterChange_AnyString(current, newFilter) ==
    IF TypeOf(newFilter) = "string" THEN newFilter.s ELSE current

\* The new selector after handleFilterChange(newFilter) with selector `current`.
handleFilterChange(current, newFilter) ==
    IF TypeOf(newFilter) = "string" /\ \E i \in DOMAIN FILTERS : FILTERS[i] = newFilter.s
    THEN newFilter.s
    ELSE current

\* The filter callback comparing the status without regard to letter case.
IsVisible_IgnoreCase(payment, selector) ==
    IF selector = FilterAll THEN TRUE
    ELSE ToLowerCase(safeToString(payment.status, <<>>)) = selector

\* The filter callback of filteredPayments.
IsVisible(payment, selector) ==
    IF selector = FilterAll THEN TRUE
    ELSE safeToString(payment.status, <<>>) = selector

\* filteredPayments: safeData.payments.filter(...)
computeFilteredPayments(payments, selector) ==
    SelectSeq(payments, LAMBDA payment : IsVisible(payment, selector))

\* ------------------------------------------------------- card preparation

\* safeToString(gatewayId).substring(0, 20)
GatewayIdLen == 20

PaymentPrefix == <<"p", "a", "y", "m", "e", "n", "t", "-">>

\* getPaymentProperty(payment, property, defaultValue = ''), payment a record
getPaymentProperty(payment, property) ==
    IF IsNullish(payment[property]) THEN Str(<<>>) ELSE payment[property]

\* Whether getSafePaymentId reaches its Math.random() call.
NeedsRandom(payment) ==
    /\ ~Truthy(getPaymentProperty(payment, "id"))
    /\ ~Truthy(getPaymentProperty(payment, "bookingId"))

\* getSafePaymentId(payment); rnd is Math.random().toString(36).substr(2, 9)
getSafePaymentId(payment, rnd) ==
    LET id == getPaymentProperty(payment, "id")
        bookingId == getPaymentProperty(payment, "bookingId")
    IN IF Truthy(id) THEN safeToString(id, <<>>)
       ELSE IF Truthy(bookingId) THEN PaymentPrefix \o safeToString(bookingId, <<>>)
       ELSE PaymentPrefix \o rnd

\* value?.toLowerCase() throws a TypeError when value is neither null nor
\* undefined and has no toLowerCase method, that is, when it is no string.
ToLowerCaseThrows(value) == ~IsNullish(value) /\ TypeOf(value) # "string"

NoCard ==
    [key |-> <<>>, amount |-> <<>>, method |-> Undefined, date |-> <<>>,
     gatewayId |-> <<>>, statusLabel |-> <<>>]

\* renderPaymentCard(payment, index): the values the card shows, or the
\* exception the call ends with.
renderPaymentCard(payment, clock, rnd) ==
    LET status == getPaymentProperty(payment, "status")
        method == getPaymentProperty(payment, "method")
    IN IF ToLowerCaseThrows(status) \/ ToLowerCaseThrows(method)
       THEN [threw |-> TRUE, card |-> NoCard]
       ELSE [threw |-> FALSE,
             card |->
                 [key |-> getSafePaymentId(payment, rnd),
                  amount |-> safeFormatCurrency(getPaymentProperty(payment, "amount"), Rupee, NotAvailable),
                  method |-> safePaymentMethod(method),
                  date |-> safeFormatDate(getPaymentProperty(payment, "paidAt"), NotAvailable, clock),
                  gatewayId |-> Substring(safeToString(getPaymentProperty(payment, "gatewayId"), <<>>),
                                          0, GatewayIdLen),
                  statusLabel |-> IF Truthy(status)
                                  THEN <<UpperChar(status.s[1])>> \o Tail(status.s)
                                  ELSE <<>>]]

\* The body of the component after the memos: the cards of the visible
\* records, or the exception the first failing card raises.
RenderCards(visible, clock, rnds) ==
    LET results == [i \in 1..Len(visible) |->
                       renderPaymentCard(visible[i], clock, IF i \in DOMAIN rnds THEN rnds[i] ELSE <<>>)]
    IN IF \E i \in 1..Len(visible) : results[i].threw
       THEN [threw |-> TRUE, cards |-> <<>>]
       ELSE [threw |-> FALSE, cards |-> [i \in 1..Len(visible) |-> results[i].card]]

\* What Math.random().toString(36).substr(2, 9) can be: up to nine base-36
\* digits, none when Math.random() returns 0.
RandomSuffixes == {<<>>, <<"k", "3", "z">>}

\* ------------------------------------------------------------------ inputs

\* Clock values (milliseconds since the epoch).
Nows == {0, 3 * DayMs}

TextP1 == <<"p", "1">>
TextP2 == <<"p", "2">>
TextB1 == <<"b", "1">>
TextPaid == FILTERS[2]
TextRefunded == FILTERS[3]
TextFailed == FILTERS[4]

\* An object entry with the given identity fields and status.
Entry(id, booking_id, status) ==
    RawPayment(PlainObject, id, booking_id, Undefined, Undefined, status, Undefined, Undefined)

\* Values tried as `id` and as `booking_id`.
IdValues == {Undefined, Null, Num(0), Str(<<>>), Str(<<" ">>), Str(TextP1)}
BookingIdValues == {Undefined, Num(0), Str(TextB1)}

\* Values tried as `status` and as `method`.
StatusValues ==
    {Null, Str(TextPaid), Str(<<"P", "a", "i", "d">>), Str(<<" ", "p", "a", "i", "d", " ">>), Str(TextRefunded),
     Str(TextFailed), Str(<<"c", "a", "n", "c", "e", "l", "l", "e", "d">>), Num(5)}
MethodValues ==
    {Str(MethodKeys[1]), Str(<<"U", "P", "I">>), Str(<<"c", "a", "s", "h">>), Str(<<"c", "o", "n", "s", "t", "r", "u", "c", "t", "o", "r">>), Num(1)}

IdentityEntries == {Entry(i, b, Undefined) : i \in IdValues, b \in BookingIdValues}
StatusEntries == {Entry(Str(TextP1), Undefined, s) : s \in StatusValues}
DetailEntries ==
    {RawPayment(PlainObject, Str(TextP1), Undefined, Num(500), Str(MethodKeys[1]), Str(TextPaid),
                Str(<<"1", "9", "7", "0", "-", "0", "1", "-", "0", "1">>),
                Str(<<"p", "a", "y", "_", "0", "1", "2", "3", "4", "5", "6", "7", "8", "9",
                      "a", "b", "c", "d", "e", "f", "g", "h", "i", "j">>)),
     RawPayment(PlainObject, Undefined, Str(TextB1), Num(999999999), Undefined, Undefined,
                Str(<<"1", "9", "7", "0", "-", "0", "1", "-", "0", "9">>), Undefined)}
    \cup {RawPayment(PlainObject, Str(TextP1), Undefined, Undefined, m, Undefined, Undefined, Undefined) :
            m \in MethodValues}
ScalarEntries == {RawScalar(Null), RawScalar(Str(TextP1)), RawScalar(EmptyArray)}

\* Every entry tried alone in a payments array.
RawEntries == IdentityEntries \cup StatusEntries \cup DetailEntries \cup ScalarEntries

\* The entries combined in longer payments arrays.
CoreEntries ==
    {Entry(Str(TextP1), Undefined, Str(TextPaid)),
     Entry(Undefined, Str(TextB1), Str(TextRefunded)),
     Entry(Str(TextP2), Undefined, Str(TextFailed)),
     Entry(Num(0), Undefined, Str(TextPaid))}

SeqsOf(S, n) == [1..n -> S]

PaymentArrays ==
    {<<>>} \cup SeqsOf(RawEntries, 1) \cup UNION {SeqsOf(CoreEntries, n) : n \in 2..MaxPayments}

\* The payloads: objects whose payments is an array, objects whose payments
\* is anything else, and payloads that are no plain object.
ArrayPayloads == {Payload(PlainObject, <<>>, EmptyArray, items) : items \in PaymentArrays}
OddPayloads ==
    {Payload(PlainObject, <<>>, pv, <<>>) :
        pv \in {Undefined, Null, Str(TextP1), Num(1), PlainObject}}
    \cup {Payload(v, <<>>, Undefined, <<>>) :
            v \in {Undefined, Null, Num(0), Num(1), Str(<<>>), Str(TextP1), Bool(TRUE)}}
    \cup {Payload(EmptyArray, items, Undefined, <<>>) :
            items \in {<<>>, <<Entry(Str(TextP1), Undefined, Str(TextPaid))>>}}
Payloads == ArrayPayloads \cup OddPayloads

\* Arguments tried in filter-change requests.
FilterArgs ==
    {Str(FILTERS[i]) : i \in DOMAIN FILTERS}
    \cup {Str(<<"c", "a", "n", "c", "e", "l", "l", "e", "d">>), Str(<<"P", "a", "i", "d">>), Null}

\* ------------------------------------------------------------ the component

NoRequest == [made |-> FALSE, arg |-> Undefined]
NoCall == [fn |-> "none", arg |-> Undefined, result |-> Undefined]

\* One Math.random() result for each card whose identifier needs one.
RandomDraws(visible) == [{i \in 1..Len(visible) : NeedsRandom(visible[i])} -> RandomSuffixes]

\* One run of the component function: the memos are recomputed from the
\* props and the state, then the cards are prepared.
Render(d, selector) ==
    /\ safeData' = getSafeData(d)
    /\ filteredPayments' = computeFilteredPayments(safeData'.payments, selector)
    /\ \E rnds \in RandomDraws(filteredPayments') :
           view' = RenderCards(filteredPayments', now, rnds)

\* The component is mounted with a payload; the selector starts at 'all'.
Init ==
    /\ data \in Payloads
    /\ filter = FilterAll
    /\ now \in Nows
    /\ request = NoRequest
    /\ call = NoCall
    /\ safeData = getSafeData(data)
    /\ filteredPayments = computeFilteredPayments(safeData.payments, filter)
    /\ \E rnds \in RandomDraws(filteredPayments) :
           view = RenderCards(filteredPayments, now, rnds)

\* The parent passes a new `data` prop.
SetData(d) ==
    /\ data' = d
    /\ Render(d, filter)
    /\ UNCHANGED <<filter, request, now, call>>

\* A filter pill calls onFilterChange(newFilter).  A component whose render
\* threw is unmounted and takes no more requests.
FilterChange(newFilter) ==
    /\ ~view.threw
    /\ filter' = handleFilterChange(filter, newFilter)
    /\ request' = [made |-> TRUE, arg |-> newFilter]
    /\ Render(data, filter')
    /\ UNCHANGED <<data, now, call>>

\* Time passes.
Tick ==
    /\ \E t \in Nows : t > now /\ now' = t
    /\ UNCHANGED <<data, filter, safeData, filteredPayments, view, request, call>>

Next ==
    \/ \E d \in Payloads : SetData(d)
    \/ \E a \in FilterArgs : FilterChange(a)
    \/ Tick

Spec == Init /\ [][Next]_vars

\* ---------------------------------------------------- sanitizers, directly

\* The pieces text inputs are concatenated from.
TextFragments ==
    {<<"j", "a", "v", "a">>, <<"s", "c", "r", "i", "p", "t", ":">>, <<"J", "a", "v", "a", "S", "c", "r", "i", "p", "t", ":">>, <<"<", "s", "c", "r", "i", "p", "t", ">">>, <<"<", "/", "s", "c", "r", "i", "p", "t", ">">>,
     <<"<", "s", "c", "r">>, <<"i", "p", "t", ">", "a", "l", "e", "r", "t", "(", "1", ")">>, <<" ", "o", "n", "l", "o", "a", "d", "=", "'", "x", "'">>}

RECURSIVE Concat(_)
Concat(ss) == IF Len(ss) = 0 THEN <<>> ELSE Head(ss) \o Concat(Tail(ss))

\* n times the character c
Repeat(c, n) == [i \in 1..n |-> c]

LongTexts ==
    {Repeat("x", MaxStrLen - 1), Repeat("x", MaxStrLen), Repeat("x", MaxStrLen + 1),
     Repeat("x", MaxStrLen) \o <<"j", "a", "v", "a", "s", "c", "r", "i", "p", "t", ":">>,
     <<" ">> \o Repeat("x", MaxStrLen) \o <<" ">>,
     Repeat("x", MaxStrLen - 2) \o <<"<", "s", "c", "r", "i", "p", "t", ">", "x", "<", "/", "s", "c", "r", "i", "p", "t", ">", "y", "z">>}

TextInputs ==
    {Str(Concat(fs)) : fs \in UNION {SeqsOf(TextFragments, n) : n \in 1..MaxFrags}}
    \cup {Str(s) : s \in LongTexts}
    \cup {Str(s) : s \in Range(MethodKeys) \cup InheritedKeys}
    \cup {Str(<<>>), Str(<<"U", "P", "I">>), Str(<<" ", "W", "a", "l", "l", "e", "t", " ">>), Str(<<"c", "a", "s", "h">>), Null, Undefined,
          Num(12345), Num(0 - 7), NaN, Bool(TRUE), PlainObject, EmptyArray}

\* Amounts: the integers around the ends of the range and around the sizes at
\* which the grouping changes, and the values that are no finite number.
AmountAnchors == {0, 1000, 100000, 10000000, MaxAmount}
AmountInputs ==
    {Num(c + k) : c \in AmountAnchors, k \in (0 - AmountWindow)..AmountWindow}
    \cup {NaN, PosInfinity, NegInfinity, Null, Undefined, PlainObject, EmptyArray, Bool(TRUE),
          Str(<<"5", "0", "0">>), Str(<<" ", "1", "2", "3", "4", "5", "6", "7", " ">>), Str(<<"-", "5">>), Str(<<"a", "b", "c">>), Str(<<>>), Str(<<"I", "n", "f", "i", "n", "i", "t", "y">>)}

\* Dates: date strings, strings that are no date, and timestamps around the
\* epoch and around one day after each clock value.
DateInputs ==
    {Str(IsoPrefix \o TwoDigits(dd)) : dd \in {1, 2, 3, 4, 5, 6, 9, 32}}
    \cup {Str(<<"a", "b", "c">>), Str(<<>>), Str(<<" ">>), Str(<<"1", "9", "7", "0", "-", "0", "1", "-", "1">>), Null, Undefined, NaN, PlainObject}
    \cup {Num(k) : k \in (0 - TimeWindow)..TimeWindow}
    \cup {Num(c + DayMs + k) : c \in Nows, k \in (0 - TimeWindow)..TimeWindow}

EmptyPayload == Payload(Undefined, <<>>, Undefined, <<>>)

\* A sanitizer is about to be called with an argument; the component is
\* mounted without data.
InitCall(args) ==
    /\ data = EmptyPayload
    /\ filter = FilterAll
    /\ now \in Nows
    /\ request = NoRequest
    /\ safeData = getSafeData(data)
    /\ filteredPayments = computeFilteredPayments(safeData.payments, filter)
    /\ view = RenderCards(filteredPayments, now, <<>>)
    /\ \E a \in args : call = [fn |-> "none", arg |-> a, result |-> Undefined]

Returns(fn, result) ==
    /\ call.fn = "none"
    /\ call' = [fn |-> fn, arg |-> call.arg, result |-> result]
    /\ UNCHANGED <<data, filter, safeData, filteredPayments, view, request, now>>

CallSafeToString == Returns("safeToString", Str(safeToString(call.arg, <<>>)))
CallSafePaymentMethod == Returns("safePaymentMethod", safePaymentMethod(call.arg))
CallSafeFormatNumber == Returns("safeFormatNumber", Str(safeFormatNumber(call.arg, NotAvailable)))
CallSafeFormatCurrency ==
    Returns("safeFormatCurrency", Str(safeFormatCurrency(call.arg, Rupee, NotAvailable)))
CallSafeFormatDate == Returns("safeFormatDate", Str(safeFormatDate(call.arg, NotAvailable, now)))

InitText == InitCall(TextInputs)
NextText == CallSafeToString \/ CallSafePaymentMethod
SpecText == InitText /\ [][NextText]_vars

InitFormat == InitCall(AmountInputs \cup DateInputs)
NextFormat == CallSafeFormatNumber \/ CallSafeFormatCurrency \/ CallSafeFormatDate
SpecFormat == InitFormat /\ [][NextFormat]_vars

\* ================================================================== claims

Count(s, x) == Cardinality({i \in DOMAIN s : s[i] = x})

\* The payload is a non-array object whose payments field is an array.
IsWellFormed(d) == d.v.t = "object" /\ d.payments.v.t = "array"

\* The raw entry has an `id` or a `booking_id` that is present and non-null.
HasIdentity(e) == ~IsNullish(Prop(e, "id")) \/ ~IsNullish(Prop(e, "booking_id"))

\* C1: every raw entry that has an id or a booking_id (present and non-null)
\* has exactly one record in the normalized set, and an entry that has
\* neither has none: each record occurs as often as identified entries map
\* to it.
C1_OneRecordPerIdentifiedEntry ==
    IsWellFormed(data) =>
        LET items == data.payments.items
        IN \A r \in {MapPayment(items[i]) : i \in DOMAIN items} \cup Range(safeData.payments) :
               Count(safeData.payments, r)
                   = Cardinality({i \in DOMAIN items : HasIdentity(items[i]) /\ MapPayment(items[i]) = r})

\* C2: a payload that is not a non-array object with an array `payments`
\* yields an empty record set, and the render that normalizes it ends
\* without an exception.
C2_MalformedPayloadYieldsEmpty ==
    ~IsWellFormed(data) => safeData.payments = <<>> /\ ~view.threw /\ view.cards = <<>>

\* A payload that is itself a non-empty array was normalized to nothing.
C2_Witness == data.v.t = "array" /\ Len(data.items) > 0 /\ safeData.payments = <<>>

\* g without its commas
StripCommas(g) == SelectSeq(g, LAMBDA c : c # ",")

\* g is the decimal digits of n with a comma before the last three digits
\* and before every two digits to the left of them, and nowhere else.
IsGroupedDigits(g, n) ==
    /\ StripCommas(g) = NatStr(n)
    /\ Len(g) > 0
    /\ g[1] # ","
    /\ \A i \in 1..Len(g) :
           LET fromRight == Len(g) - i + 1
           IN (g[i] = ",") <=> (fromRight >= 4 /\ (fromRight - 4) % 3 = 0)

IsInRange(a) == a.t = "number" /\ 0 <= a.n /\ a.n <= MaxAmount

\* C3 as stated: for a number within [0, 100000000] the currency sanitizer
\* returns the symbol and the grouped digits, for EVERY other number, the
\* infinities included, the symbol-prefixed "Invalid", and for null "N/A".
C3_EveryOtherNumberInvalid ==
    call.fn = "safeFormatCurrency" =>
        /\ IsInRange(call.arg) =>
               call.result.s[1] = Rupee[1] /\ IsGroupedDigits(Tail(call.result.s), call.arg.n)
        /\ call.arg.t \in {"number", "inf", "ninf"} /\ ~IsInRange(call.arg) =>
               call.result.s = Rupee \o InvalidText
        /\ call.arg = Null => call.result.s = NotAvailable

\* C3, amended: for a finite number within [0, 100000000] the currency
\* sanitizer returns the symbol and the grouped digits, for every other
\* finite number the symbol-prefixed "Invalid", and for null, NaN and the
\* infinities "N/A".
C3_FiniteNumbers ==
    call.fn = "safeFormatCurrency" =>
        /\ IsInRange(call.arg) =>
               call.result.s[1] = Rupee[1] /\ IsGroupedDigits(Tail(call.result.s), call.arg.n)
        /\ call.arg.t = "number" /\ ~IsInRange(call.arg) =>
               call.result.s = Rupee \o InvalidText
        /\ call.arg \in {Null, NaN, PosInfinity, NegInfinity} => call.result.s = NotAvailable

\* The upper limit itself was formatted, with its grouping.
C3_Witness ==
    /\ call.fn = "safeFormatCurrency"
    /\ call.arg = Num(MaxAmount)
    /\ Len(call.result.s) > Len(NatStr(MaxAmount)) + 1

\* The instant a date input denotes: a timestamp, or a date string.
Denotes(v) == IF v.t \in {"number", "string"} THEN NewDate(v) ELSE InvalidDate

\* C4: the date sanitizer returns "Invalid Date" for an instant more than
\* one day after the current time, "N/A" for a string that cannot be parsed,
\* and a non-empty string that is neither sentinel for every valid instant
\* in the past or no more than one day ahead.
C4_ValidInstantsFormatted ==
    call.fn = "safeFormatDate" =>
        /\ Denotes(call.arg).valid /\ Denotes(call.arg).t > now + DayMs =>
               call.result.s = InvalidDateText
        /\ call.arg.t = "string" /\ ~Denotes(call.arg).valid =>
               call.result.s = NotAvailable
        /\ Denotes(call.arg).valid /\ Denotes(call.arg).t <= now + DayMs =>
               /\ Len(call.result.s) > 0
               /\ call.result.s \notin {NotAvailable, InvalidDateText}

\* s holds a script element: an opening <script tag with a closing
\* </script> somewhere after it.
HasScriptElement(s) == \E i \in 1..Len(s) : ScriptMatchEnd(s, i) > 0

\* s holds javascript: in some letter case.
HasJavascriptUri(s) == \E i \in 1..Len(s) : MatchesAtCI(s, i, JavascriptUri)

\* C5: the output of the text sanitizer holds no <script>...</script>
\* element and no javascript: prefix in any letter case, and is at most 500
\* characters long.
C5_OutputIsClean ==
    call.fn = "safeToString" =>
        /\ ~HasScriptElement(call.result.s)
        /\ ~HasJavascriptUri(call.result.s)
        /\ Len(call.result.s) <= MaxStrLen

\* The argument of a filter-change request is one of the four selectors.
IsSelector(a) == a.t = "string" /\ a.s \in Range(FILTERS)

\* C6: the selector is always one of all, paid, refunded, failed; a request
\* with one of these sets the selector to it, and a request with anything
\* else leaves the selector as it was.
C6_SelectorStaysValid ==
    /\ [](filter \in Range(FILTERS))
    /\ [][request'.made =>
              filter' = IF IsSelector(request'.arg) THEN request'.arg.s ELSE filter]_vars

\* A request with something else was made while the selector was not the
\* initial one, and the selector is still that one.
C6_Witness == request.made /\ ~IsSelector(request.arg) /\ filter = TextRefunded

\* The record at position i of the normalized set is selected.
IsSelected(i) ==
    filter = FilterAll \/ safeToString(safeData.payments[i].status, <<>>) = filter

\* The k-th smallest element of a set of numbers.
Nth(S, k) == CHOOSE i \in S : Cardinality({j \in S : j <= i}) = k

\* C7: the visible subset is exactly the records whose sanitized status is
\* the selector, or all of them under `all`, in the order of the record set;
\* under `all` it is the record set itself, and filtering the visible subset
\* again with the same selector changes nothing.
C7_VisibleIsTheSelectedInOrder ==
    LET selected == {i \in DOMAIN safeData.payments : IsSelected(i)}
    IN /\ Len(filteredPayments) = Cardinality(selected)
       /\ \A k \in 1..Len(filteredPayments) :
              filteredPayments[k] = safeData.payments[Nth(selected, k)]
       /\ filter = FilterAll => filteredPayments = safeData.payments
       /\ computeFilteredPayments(filteredPayments, filter) = filteredPayments

\* A selector other than `all` shows some records and hides others.
C7_Witness ==
    /\ filter = TextPaid
    /\ Len(filteredPayments) > 0
    /\ Len(filteredPayments) < Len(safeData.payments)

\* C8: no exception raised while normalizing, filtering or preparing the
\* display values of a record reaches the rendering layer.
C8_NoExceptionReachesRender == ~view.threw

\* s starts with "payment-" and goes on with a random suffix.
IsPlaceholder(s) == \E r \in RandomSuffixes : s = PaymentPrefix \o r

\* C9: the identifier of a record is its sanitized id when it has an id,
\* else "payment-" and its sanitized bookingId when it has a bookingId, else
\* a random placeholder.
C9_IdentifierPriority ==
    ~view.threw =>
        \A k \in 1..Len(view.cards) :
            LET p == filteredPayments[k]
            IN IF ~IsNullish(p.id) THEN view.cards[k].key = safeToString(p.id, <<>>)
               ELSE IF ~IsNullish(p.bookingId)
               THEN view.cards[k].key = PaymentPrefix \o safeToString(p.bookingId, <<>>)
               ELSE IsPlaceholder(view.cards[k].key)

\* C10: the identifier of every record admitted to the normalized set is a
\* non-empty string.
C10_IdentifierNonEmpty ==
    ~view.threw => \A k \in 1..Len(view.cards) : Len(view.cards[k].key) > 0

\* The filter of getSafeData admits the raw entry.
IsAdmitted(e) == Truthy(Prop(e, "id")) \/ Truthy(Prop(e, "booking_id"))

\* C11: the normalized records are the records of the admitted raw entries
\* in the order of the input array, one for each admitted entry, entries
\* with equal identity fields included.
C11_InputOrderKeptNoDeduplication ==
    IsWellFormed(data) =>
        LET items == data.payments.items
            admitted == {i \in DOMAIN items : IsAdmitted(items[i])}
        IN /\ Len(safeData.payments) = Cardinality(admitted)
           /\ \A k \in 1..Len(safeData.payments) :
                  safeData.payments[k] = MapPayment(items[Nth(admitted, k)])

\* Two equal raw entries were admitted and each has its record.
C11_Witness ==
    /\ IsWellFormed(data)
    /\ Len(data.payments.items) = 2
    /\ data.payments.items[1] = data.payments.items[2]
    /\ Len(safeData.payments) = 2
    /\ safeData.payments[1] = safeData.payments[2]

\* The entry of the enumeration that the value, sanitized, is in some letter
\* case; 0 when there is none.
MethodIndex(v) ==
    LET hits == {i \in DOMAIN MethodKeys : ToLowerCase(safeToString(v, <<>>)) = MethodKeys[i]}
    IN IF IsNullish(v) \/ hits = {} THEN 0 ELSE Min(hits)

\* C12: the payment-method sanitizer returns the label of the entry the
\* value matches ignoring letter case, "Unknown" for null and undefined, and
\* for every other value that value passed through the text sanitizer.
C12_LabelUnknownOrSanitized ==
    call.fn = "safePaymentMethod" =>
        IF IsNullish(call.arg) THEN call.result = Str(UnknownText)
        ELSE IF MethodIndex(call.arg) > 0 THEN call.result = Str(MethodLabels[MethodIndex(call.arg)])
        ELSE call.result = Str(safeToString(call.arg, <<>>))

====
